---- MODULE Spec2Model ----
(***************************************************************************)
(* Model of prost-types/src/lib.rs: canonicalisation of the protobuf       *)
(* well-known types Duration and Timestamp and their conversions to and    *)
(* from std::time::Duration and std::time::SystemTime.                     *)
(*                                                                         *)
(* Number representation.  TLC integers are 32 bits wide, so               *)
(*   - an i32 (nanos) is a TLC integer with its true value;                *)
(*   - a 64-bit quantity (seconds, i64 or u64) is a pair <<k, o>> that     *)
(*     denotes the mathematical integer k * 2^63 + o, with o small.  This  *)
(*     is exact arithmetic on the integers close to -2^63, 0, 2^63 and     *)
(*     2^64, which is where the 64-bit operations of the code change       *)
(*     behaviour;                                                          *)
(*   - a u32 is a pair <<h, l>> that denotes h * 2^31 + l, 0 <= l < 2^31.  *)
(* Arithmetic overflow panics when the crate is built with overflow checks *)
(* (debug profile) and wraps otherwise (release profile); the variable     *)
(* overflow_checks is the profile of the build.                            *)
(***************************************************************************)
EXTENDS Integers, FiniteSets, Sequences, TLC

VARIABLES
    overflow_checks, \* build profile: TRUE = overflow panics, FALSE = wraps
    self,            \* the wire value operated on: [type, seconds, nanos]
    origin,          \* how self was constructed: raw wire pair or host value
    last,            \* name of the last operation applied
    arg,             \* input of the last operation: [seconds, nanos]
    res,             \* outcome of the last operation: [tag, secs, nanos, line]
    overflowed       \* the last operation hit a signed overflow

vars == <<overflow_checks, self, origin, last, arg, res, overflowed>>

----------------------------------------------------------------------------
(* Bounds of the explored input space *)

Spread == 2

----------------------------------------------------------------------------
(* Machine integers *)

NANOS_PER_SECOND == 1000000000

I32_MAX == 2147483647
I32_MIN == -2147483647 - 1

\* 2^31 mod NANOS_PER_SECOND (2^31 = 2 * 10^9 + 147483648)
TwoPow31Rem == I32_MAX - 2 * NANOS_PER_SECOND + 1

Zero64 == <<0, 0>>
I64_MIN == <<-1, 0>>
I64_MAX == <<1, -1>>
U64_MAX == <<2, -1>>

WAdd(w, k) == <<w[1], w[2] + k>>
WNeg(w) == <<-w[1], -w[2]>>
WLt(a, b) == a[1] < b[1] \/ (a[1] = b[1] /\ a[2] < b[2])
WLe(a, b) == a = b \/ WLt(a, b)

InI64(w) == WLe(I64_MIN, w) /\ WLe(w, I64_MAX)
InU64(w) == WLe(Zero64, w) /\ WLe(w, U64_MAX)

\* two's complement wrap of a value at most 2^64 away from the i64 range
WrapI64(w) ==
    IF WLt(I64_MAX, w) THEN <<w[1] - 2, w[2]>>
    ELSE IF WLt(w, I64_MIN) THEN <<w[1] + 2, w[2]>>
    ELSE w

\* `x as u64` for x: i64
AsU64(w) == IF WLt(w, Zero64) THEN <<w[1] + 2, w[2]>> ELSE w

\* `x as u32` for x: i32
AsU32(n) == IF n >= 0 THEN <<0, n>> ELSE <<1, n - I32_MIN>>

\* u32 / NANOS_PER_SECOND and u32 % NANOS_PER_SECOND
U32Div(u) ==
    IF u[1] = 0 THEN u[2] \div NANOS_PER_SECOND
    ELSE 2 + (u[2] \div NANOS_PER_SECOND)
           + (((u[2] % NANOS_PER_SECOND) + TwoPow31Rem) \div NANOS_PER_SECOND)
U32Rem(u) ==
    IF u[1] = 0 THEN u[2] % NANOS_PER_SECOND
    ELSE ((u[2] % NANOS_PER_SECOND) + TwoPow31Rem) % NANOS_PER_SECOND

\* division that rounds toward minus infinity
FloorDiv(a, b) == a \div b

\* i32 division and remainder truncate toward zero
TruncDiv(a, b) ==
    IF a < 0 /\ a % b # 0 THEN (a \div b) + 1 ELSE a \div b
TruncRem(a, b) ==
    IF a < 0 /\ a % b # 0 THEN (a % b) - b ELSE a % b

----------------------------------------------------------------------------
(* Execution state of a function body: the two fields, the source line of  *)
(* the panic that ended it (0 = none) and whether an overflow happened.    *)

St(s, n) == [seconds |-> s, nanos |-> n, panic |-> 0, ovf |-> FALSE]

\* self.seconds += k / self.seconds -= k  on an i64
SecAdd(st, k, oc, line) ==
    IF st.panic # 0 THEN st
    ELSE LET sum == WAdd(st.seconds, k) IN
         IF InI64(sum) THEN [st EXCEPT !.seconds = sum]
         ELSE IF oc THEN [st EXCEPT !.panic = line, !.ovf = TRUE]
         ELSE [st EXCEPT !.seconds = WrapI64(sum), !.ovf = TRUE]

\* -self.seconds on an i64
SecNeg(st, oc, line) ==
    IF st.panic # 0 THEN st
    ELSE LET neg == WNeg(st.seconds) IN
         IF InI64(neg) THEN [st EXCEPT !.seconds = neg]
         ELSE IF oc THEN [st EXCEPT !.panic = line, !.ovf = TRUE]
         ELSE [st EXCEPT !.seconds = WrapI64(neg), !.ovf = TRUE]

\* self.nanos += k / self.nanos -= k  on an i32, |k| <= NANOS_PER_SECOND
NanoAdd(st, k, oc, line) ==
    IF st.panic # 0 THEN st
    ELSE IF k > 0 /\ st.nanos > I32_MAX - k
         THEN IF oc THEN [st EXCEPT !.panic = line, !.ovf = TRUE]
              ELSE [st EXCEPT !.nanos = (st.nanos - I32_MAX) + (k - I32_MAX) - 2,
                              !.ovf = TRUE]
    ELSE IF k < 0 /\ st.nanos < I32_MIN - k
         THEN IF oc THEN [st EXCEPT !.panic = line, !.ovf = TRUE]
              ELSE [st EXCEPT !.nanos = (st.nanos - I32_MIN) + (k - I32_MIN),
                              !.ovf = TRUE]
    ELSE [st EXCEPT !.nanos = st.nanos + k]

\* -self.nanos on an i32
NanoNeg(st, oc, line) ==
    IF st.panic # 0 THEN st
    ELSE IF st.nanos = I32_MIN
         THEN IF oc THEN [st EXCEPT !.panic = line, !.ovf = TRUE]
              ELSE [st EXCEPT !.ovf = TRUE]
    ELSE [st EXCEPT !.nanos = -st.nanos]

----------------------------------------------------------------------------
(* Normalisation *)

\* RangeFold with strict comparisons: a nanos of exactly one second is kept
RangeFoldStrict(st, oc, line) ==
    IF st.nanos < -NANOS_PER_SECOND \/ st.nanos > NANOS_PER_SECOND
    THEN LET carried == SecAdd(st, TruncDiv(st.nanos, NANOS_PER_SECOND), oc, line) IN
         IF carried.panic # 0 THEN carried
         ELSE [carried EXCEPT !.nanos = TruncRem(st.nanos, NANOS_PER_SECOND)]
    ELSE st

\* lib.rs 35-38 and 103-106: make sure nanos is in the range
RangeFold(st, oc, line) ==
    IF st.nanos <= -NANOS_PER_SECOND \/ st.nanos >= NANOS_PER_SECOND
    THEN LET carried == SecAdd(st, TruncDiv(st.nanos, NANOS_PER_SECOND), oc, line) IN
         IF carried.panic # 0 THEN carried
         ELSE [carried EXCEPT !.nanos = TruncRem(st.nanos, NANOS_PER_SECOND)]
    ELSE st

\* DurationSignFix without the branch for seconds < 0 && nanos > 0
DurationSignFixNoCarry(st, oc) ==
    IF st.panic # 0 THEN st
    ELSE IF WLt(Zero64, st.seconds) /\ st.nanos < 0
         THEN NanoAdd(SecAdd(st, -1, oc, 45), NANOS_PER_SECOND, oc, 46)
    ELSE st

\* DurationSignFix that also carries when seconds is zero
DurationSignFixZero(st, oc) ==
    IF st.panic # 0 THEN st
    ELSE IF WLe(st.seconds, Zero64) /\ st.nanos > 0
         THEN NanoAdd(SecAdd(st, 1, oc, 42), -NANOS_PER_SECOND, oc, 43)
    ELSE IF WLt(Zero64, st.seconds) /\ st.nanos < 0
         THEN NanoAdd(SecAdd(st, -1, oc, 45), NANOS_PER_SECOND, oc, 46)
    ELSE st

\* lib.rs 41-47: nanos should have the same sign as seconds
DurationSignFix(st, oc) ==
    IF st.panic # 0 THEN st
    ELSE IF WLt(st.seconds, Zero64) /\ st.nanos > 0
         THEN NanoAdd(SecAdd(st, 1, oc, 42), -NANOS_PER_SECOND, oc, 43)
    ELSE IF WLt(Zero64, st.seconds) /\ st.nanos < 0
         THEN NanoAdd(SecAdd(st, -1, oc, 45), NANOS_PER_SECOND, oc, 46)
    ELSE st

\* lib.rs 109-112: for Timestamp nanos should be in the range [0, 999999999]
TimestampSignFix(st, oc) ==
    IF st.panic # 0 THEN st
    ELSE IF st.nanos < 0
         THEN NanoAdd(SecAdd(st, -1, oc, 110), NANOS_PER_SECOND, oc, 111)
    ELSE st

\* Duration::normalize
DurationNormalize(st, oc) == DurationSignFix(RangeFold(st, oc, 36), oc)

\* Timestamp::normalize
TimestampNormalize(st, oc) == TimestampSignFix(RangeFold(st, oc, 104), oc)

----------------------------------------------------------------------------
(* Host types.  A std::time::Duration is [secs: u64, nanos: 0..999_999_999];*)
(* a std::time::SystemTime is its distance from UNIX_EPOCH and the side of *)
(* the epoch it lies on.                                                    *)

\* std::time::Duration::new(secs: u64, nanos: u32): carries whole seconds of
\* nanos into secs and panics when the sum overflows a u64
DurationNew(secs, nanos, line) ==
    LET sum == WAdd(secs, U32Div(nanos)) IN
    IF InU64(sum) THEN [secs |-> sum, nanos |-> U32Rem(nanos), panic |-> 0]
    ELSE [secs |-> secs, nanos |-> U32Rem(nanos), panic |-> line]

Outcome(tag, secs, nanos, line) ==
    [tag |-> tag, secs |-> secs, nanos |-> nanos, line |-> line]

Panic(line) == Outcome("panic", Zero64, 0, line)

\* a Result built from a time::Duration::new call
Built(tag, d) ==
    IF d.panic # 0 THEN Panic(d.panic) ELSE Outcome(tag, d.secs, d.nanos, 0)

\* `seconds as i64` without the saturation
WrappingSeconds(secs) == WrapI64(secs)

\* lib.rs 57-62: saturate the u64 second count to i64
SaturateSeconds(secs) == IF WLt(I64_MAX, secs) THEN I64_MAX ELSE secs

\* lib.rs 63-68: saturate the u32 nanosecond count to i32
SaturateNanos(nanos) == IF nanos[1] # 0 THEN I32_MAX ELSE nanos[2]

\* From<time::Duration> for Duration: the wire value built, as an execution
\* state (panic and ovf report what normalize did)
DurationFrom(d, oc) ==
    DurationNormalize(St(SaturateSeconds(d.secs), SaturateNanos(AsU32(d.nanos))), oc)

\* a success test that rejects zero seconds
StrictlyPositive(n) == WLt(Zero64, n.seconds)

\* lib.rs 82: duration.seconds >= 0
DurationNonNegative(n) == WLe(Zero64, n.seconds)

\* TryFrom<Duration> for time::Duration.  local is the normalised argument.
DurationTryFrom(st, oc) ==
    LET n == DurationNormalize(st, oc) IN
    IF n.panic # 0 THEN [local |-> n, out |-> Panic(n.panic), ovf |-> n.ovf]
    ELSE IF DurationNonNegative(n)
    THEN [local |-> n,
          out |-> Built("Ok", DurationNew(AsU64(n.seconds), AsU32(n.nanos), 83)),
          ovf |-> n.ovf]
    ELSE LET negs == SecNeg(n, oc, 89)
             negn == NanoNeg([negs EXCEPT !.nanos = n.nanos], oc, 90) IN
         [local |-> n,
          out |-> IF negn.panic # 0 THEN Panic(negn.panic)
                  ELSE Built("Err", DurationNew(AsU64(negn.seconds), AsU32(negn.nanos), 88)),
          ovf |-> negn.ovf]

\* TryFrom<Timestamp> for time::SystemTime.  local is the normalised argument;
\* an Ok outcome is the distance of the time point after UNIX_EPOCH.
TimestampTryFrom(st, oc) ==
    LET n == TimestampNormalize(st, oc) IN
    IF n.panic # 0 THEN [local |-> n, out |-> Panic(n.panic), ovf |-> n.ovf]
    ELSE IF WLe(Zero64, n.seconds)
    THEN [local |-> n,
          out |-> Built("Ok", DurationNew(AsU64(n.seconds), AsU32(n.nanos), 160)),
          ovf |-> n.ovf]
    ELSE LET duration == DurationNormalize(SecNeg(n, oc, 163), oc) IN
         [local |-> n,
          out |-> IF duration.panic # 0 THEN Panic(duration.panic)
                  ELSE Built("Err", DurationNew(AsU64(duration.seconds),
                                                AsU32(duration.nanos), 167)),
          ovf |-> duration.ovf]

\* From<time::SystemTime> for Timestamp: duration_since(UNIX_EPOCH).unwrap()
\* panics for a time point before the epoch
TimestampFrom(t, oc) ==
    IF t.before /\ (t.secs # Zero64 \/ t.nanos # 0)
    THEN [St(Zero64, 0) EXCEPT !.panic = 143]
    ELSE DurationFrom([secs |-> t.secs, nanos |-> t.nanos], oc)

----------------------------------------------------------------------------
(* Inputs: values around every point where the arithmetic changes behaviour *)

SecondsInputs ==
    {WAdd(I64_MIN, d) : d \in 0..Spread}
    \cup {WAdd(Zero64, d) : d \in -Spread..Spread}
    \cup {WAdd(I64_MAX, -d) : d \in 0..Spread}
    \cup {<<0, -5>>, <<0, 5>>}

NanosInputs ==
    {I32_MIN + d : d \in 0..Spread}
    \cup {I32_MAX - d : d \in 0..Spread}
    \cup {k * NANOS_PER_SECOND + d : k \in -2..2, d \in -Spread..Spread}
    \cup {-1500000000, -500000000, 12, 500000000, 1500000000}

HostSecs ==
    {WAdd(Zero64, d) : d \in 0..Spread}
    \cup {WAdd(I64_MAX, d) : d \in -Spread..Spread}
    \cup {WAdd(U64_MAX, -d) : d \in 0..Spread}
    \cup {<<0, 5>>}

HostNanos ==
    {d : d \in 0..Spread}
    \cup {NANOS_PER_SECOND - 1 - d : d \in 0..Spread}
    \cup {12, 500000000}

HostDurations == [secs : HostSecs, nanos : HostNanos]

SystemTimes == [before : BOOLEAN, secs : HostSecs, nanos : HostNanos]

Pair(s, n) == [seconds |-> s, nanos |-> n]

Unit == Outcome("unit", Zero64, 0, 0)

----------------------------------------------------------------------------
(* State machine *)

\* a Duration or Timestamp message as it comes out of deserialisation: any
\* (i64, i32) pair
Init ==
    /\ overflow_checks \in BOOLEAN
    /\ \E t \in {"Duration", "Timestamp"}, s \in SecondsInputs, n \in NanosInputs :
          /\ self = [type |-> t, seconds |-> s, nanos |-> n]
          /\ origin = [tag |-> "wire", secs |-> s, nanos |-> n]
          /\ arg = Pair(s, n)
    /\ last = "new"
    /\ res = Unit
    /\ overflowed = FALSE

Running == res.tag # "panic"

\* the outcome of a function that returns () or panics
UnitOr(st) == IF st.panic # 0 THEN Panic(st.panic) ELSE Unit

\* duration.normalize()
CallDurationNormalize ==
    /\ Running /\ self.type = "Duration"
    /\ LET st == DurationNormalize(St(self.seconds, self.nanos), overflow_checks) IN
          /\ self' = [self EXCEPT !.seconds = st.seconds, !.nanos = st.nanos]
          /\ res' = UnitOr(st)
          /\ overflowed' = st.ovf
    /\ arg' = Pair(self.seconds, self.nanos)
    /\ last' = "Duration::normalize"
    /\ UNCHANGED <<overflow_checks, origin>>

\* timestamp.normalize()
CallTimestampNormalize ==
    /\ Running /\ self.type = "Timestamp"
    /\ LET st == TimestampNormalize(St(self.seconds, self.nanos), overflow_checks) IN
          /\ self' = [self EXCEPT !.seconds = st.seconds, !.nanos = st.nanos]
          /\ res' = UnitOr(st)
          /\ overflowed' = st.ovf
    /\ arg' = Pair(self.seconds, self.nanos)
    /\ last' = "Timestamp::normalize"
    /\ UNCHANGED <<overflow_checks, origin>>

\* Duration::from(d) for a host duration d
CallDurationFrom ==
    /\ Running
    /\ \E d \in HostDurations :
          LET st == DurationFrom(d, overflow_checks) IN
          /\ self' = [type |-> "Duration", seconds |-> st.seconds, nanos |-> st.nanos]
          /\ origin' = [tag |-> "host", secs |-> d.secs, nanos |-> d.nanos]
          /\ arg' = Pair(d.secs, d.nanos)
          /\ res' = UnitOr(st)
          /\ overflowed' = st.ovf
    /\ last' = "Duration::from"
    /\ UNCHANGED overflow_checks

\* time::Duration::try_from(duration); self becomes the function's normalised
\* copy of the argument
CallDurationTryFrom ==
    /\ Running /\ self.type = "Duration"
    /\ LET r == DurationTryFrom(St(self.seconds, self.nanos), overflow_checks) IN
          /\ self' = [self EXCEPT !.seconds = r.local.seconds, !.nanos = r.local.nanos]
          /\ res' = r.out
          /\ overflowed' = r.ovf
    /\ arg' = Pair(self.seconds, self.nanos)
    /\ last' = "Duration::try_from"
    /\ UNCHANGED <<overflow_checks, origin>>

\* Timestamp::from(t) for a host time point t
CallTimestampFrom ==
    /\ Running
    /\ \E t \in SystemTimes :
          LET st == TimestampFrom(t, overflow_checks) IN
          /\ self' = [type |-> "Timestamp", seconds |-> st.seconds, nanos |-> st.nanos]
          /\ origin' = [tag |-> IF t.before THEN "host_before" ELSE "host",
                        secs |-> t.secs, nanos |-> t.nanos]
          /\ arg' = Pair(t.secs, t.nanos)
          /\ res' = UnitOr(st)
          /\ overflowed' = st.ovf
    /\ last' = "Timestamp::from"
    /\ UNCHANGED overflow_checks

\* time::SystemTime::try_from(timestamp); self becomes the function's
\* normalised copy of the argument
CallTimestampTryFrom ==
    /\ Running /\ self.type = "Timestamp"
    /\ LET r == TimestampTryFrom(St(self.seconds, self.nanos), overflow_checks) IN
          /\ self' = [self EXCEPT !.seconds = r.local.seconds, !.nanos = r.local.nanos]
          /\ res' = r.out
          /\ overflowed' = r.ovf
    /\ arg' = Pair(self.seconds, self.nanos)
    /\ last' = "Timestamp::try_from"
    /\ UNCHANGED <<overflow_checks, origin>>

Next ==
    \/ CallDurationNormalize
    \/ CallTimestampNormalize
    \/ CallDurationFrom
    \/ CallDurationTryFrom
    \/ CallTimestampFrom
    \/ CallTimestampTryFrom

Spec == Init /\ [][Next]_vars

----------------------------------------------------------------------------
(* Properties *)

\* the value seconds * 10^9 + nanos of a pair, as the unique pair of the
\* same value whose nanos lies in 0..999_999_999
Canon(s, n) == <<WAdd(s, n \div NANOS_PER_SECOND), n % NANOS_PER_SECOND>>

Returned == res.tag # "panic"

DurationCanonical(s, n) ==
    /\ -999999999 <= n /\ n <= 999999999
    /\ ~(WLt(s, Zero64) /\ n > 0)
    /\ ~(WLt(Zero64, s) /\ n < 0)

TimestampCanonical(s, n) == 0 <= n /\ n <= 999999999

\* C1: whenever Duration::normalize returns (called directly or by
\* try_from), nanos is within -999_999_999..999_999_999 and the pair is
\* not mixed-sign.
C1_DurationRange ==
    (last \in {"Duration::normalize", "Duration::try_from"}
        /\ (Returned \/ res.line \in {83, 88, 89, 90}))
    => DurationCanonical(self.seconds, self.nanos)

\* a mixed-sign pair with nanos beyond one second was normalised
C1_Witness ==
    /\ last = "Duration::normalize" /\ Returned
    /\ WLt(arg.seconds, Zero64) /\ arg.nanos > NANOS_PER_SECOND
    /\ self.nanos < 0

\* C2: whenever Timestamp::normalize returns (called directly or by
\* try_from), 0 <= nanos <= 999_999_999 whatever the sign of seconds.
C2_TimestampRange ==
    (last \in {"Timestamp::normalize", "Timestamp::try_from"}
        /\ (Returned \/ res.line \in {160, 163, 167, 36, 42, 43, 45, 46}))
    => TimestampCanonical(self.seconds, self.nanos)

\* a timestamp with negative seconds and negative nanos was normalised
C2_Witness ==
    /\ last = "Timestamp::normalize" /\ Returned
    /\ WLt(arg.seconds, Zero64) /\ arg.nanos < -NANOS_PER_SECOND
    /\ WLt(self.seconds, Zero64) /\ self.nanos > 0

\* C3: when TryFrom<Duration> returns Ok, both normalised fields are
\* non-negative and the Ok value is exactly (seconds, nanos).
C3_OkIsNormalizedPair ==
    (last = "Duration::try_from" /\ res.tag = "Ok")
    => /\ WLe(Zero64, self.seconds) /\ self.nanos >= 0
       /\ res.secs = self.seconds /\ res.nanos = self.nanos

\* C4: a Timestamp before the epoch converts to Err carrying the distance
\* to the epoch, -(seconds * 10^9 + nanos) (runs without overflow).
C4_ErrIsDistanceToEpoch ==
    (last = "Timestamp::try_from" /\ Returned /\ ~overflowed
        /\ WLt(self.seconds, Zero64))
    => /\ res.tag = "Err"
       /\ Canon(res.secs, res.nanos) = Canon(WNeg(self.seconds), -self.nanos)

\* C5: a Duration whose normalised seconds is negative converts to Err
\* carrying |seconds * 10^9 + nanos|.
C5_ErrIsMagnitude ==
    (last = "Duration::try_from" /\ (Returned \/ res.line \in {88, 89, 90})
        /\ WLt(self.seconds, Zero64))
    => /\ res.tag = "Err"
       /\ Canon(res.secs, res.nanos) = Canon(WNeg(self.seconds), -self.nanos)

\* C6 as stated: every host duration survives the round trip through
\* Duration::from and try_from.
C6_RoundTripAll ==
    (last = "Duration::try_from" /\ origin.tag = "host")
    => res = Outcome("Ok", origin.secs, origin.nanos, 0)

\* C6 amended: a host duration of at most 2^63 - 1 whole seconds survives
\* the round trip through Duration::from and try_from.
C6_RoundTripInRange ==
    (last = "Duration::try_from" /\ origin.tag = "host"
        /\ WLe(origin.secs, I64_MAX))
    => res = Outcome("Ok", origin.secs, origin.nanos, 0)

\* the largest host duration in range made the round trip
C6_Witness ==
    /\ last = "Duration::try_from" /\ origin.tag = "host"
    /\ origin.secs = I64_MAX /\ origin.nanos = NANOS_PER_SECOND - 1
    /\ res.tag = "Ok"

\* C7: under both policies, normalising a pair that is already canonical
\* returns without overflow and changes neither field.
C7_Idempotent ==
    /\ (self.type = "Duration" /\ DurationCanonical(self.seconds, self.nanos))
       => DurationNormalize(St(self.seconds, self.nanos), overflow_checks)
            = St(self.seconds, self.nanos)
    /\ (self.type = "Timestamp" /\ TimestampCanonical(self.seconds, self.nanos))
       => TimestampNormalize(St(self.seconds, self.nanos), overflow_checks)
            = St(self.seconds, self.nanos)

\* normalize ran a second time on the pair a first run had produced from a
\* non-canonical input
C7_Witness ==
    /\ last = "Timestamp::normalize" /\ Returned
    /\ arg = Pair(self.seconds, self.nanos)
    /\ origin.tag = "wire" /\ origin.nanos < 0

\* C8: both wire-to-host conversions end in Ok or Err and no signed
\* operation overflows.
C8_TotalNoOverflow ==
    last \in {"Duration::try_from", "Timestamp::try_from"}
    => (res.tag \in {"Ok", "Err"} /\ ~overflowed)

\* C9: Duration::from never fails, seconds is min(host seconds, 2^63 - 1),
\* nanos is the host nanos clamped to 2^31 - 1, both are non-negative, and
\* they are the values computed before the final normalize.
C9_FromSaturates ==
    last = "Duration::from"
    => /\ res.tag = "unit" /\ ~overflowed
       /\ self.seconds = (IF WLe(arg.seconds, I64_MAX) THEN arg.seconds ELSE I64_MAX)
       /\ self.nanos = (IF arg.nanos <= I32_MAX THEN arg.nanos ELSE I32_MAX)
       /\ WLe(Zero64, self.seconds) /\ self.nanos >= 0

\* a host duration beyond the i64 range was saturated
C9_Witness ==
    /\ last = "Duration::from"
    /\ WLt(I64_MAX, arg.seconds) /\ self.seconds = I64_MAX /\ self.nanos > 0

\* C10: when no seconds arithmetic overflows, both normalisations keep
\* seconds * 10^9 + nanos; (1, 1_500_000_000) becomes (2, 500_000_000) and
\* (1, -500_000_000) becomes (0, 500_000_000).
C10_ValuePreserved ==
    /\ (last \in {"Duration::normalize", "Timestamp::normalize"}
            /\ Returned /\ ~overflowed)
       => Canon(arg.seconds, arg.nanos) = Canon(self.seconds, self.nanos)
    /\ (last = "Duration::normalize" /\ arg = Pair(<<0, 1>>, 1500000000))
       => (Returned /\ Pair(self.seconds, self.nanos) = Pair(<<0, 2>>, 500000000))
    /\ (last = "Duration::normalize" /\ arg = Pair(<<0, 1>>, -500000000))
       => (Returned /\ Pair(self.seconds, self.nanos) = Pair(<<0, 0>>, 500000000))

\* the carry scenario ran
C10_Witness ==
    /\ last = "Duration::normalize" /\ arg = Pair(<<0, 1>>, 1500000000)
    /\ self.seconds = <<0, 2>>

====
